---- MODULE Spec2Model ----
(***************************************************************************)
(* A model of src/src/utils/popover.js: the two Popover classes of the     *)
(* file.  The first ("remote", lines 15-264) re-renders its rows from a    *)
(* debounced fetch; the second ("local", lines 280-461) filters its items  *)
(* synchronously on every keydown.  One popover instance is modelled; the  *)
(* variable variant says which class it is an instance of.                 *)
(*                                                                         *)
(* Strings are sequences of one-character strings.  Array indices are the  *)
(* 0-based ones of the JavaScript; Nth reads them from a 1-based sequence. *)
(***************************************************************************)
EXTENDS Integers, Sequences, FiniteSets, TLC

VARIABLES
  variant,         \* "remote" | "local": which Popover class this instance is
  hostItems,       \* the array the host passed to the constructor (ghost copy)
  items,           \* this.items
  wrapper,         \* this.wrapper: "undefined" before render(), "div" after
  children,        \* child nodes of the wrapper in DOM order; 0 is the search input
  els,             \* every row element ever made, by node id (1..Len(els))
  itemEls,         \* this.itemEls: node ids
  opened,          \* the wrapper's classList contains popoverOpened
  hostCond,        \* the host condition the items' hideIf() predicates read
  timers,          \* the event loop's pending timeouts: [id, remaining]
  interval,        \* this.interval: the id of the last timeout set, 0 for null
  inflight,        \* ids of the getData() calls awaiting their fetch
  fetchSeq,        \* number of getData() calls started so far
  rejections,      \* number of getData() promises that ended rejected, unhandled
  sinceKey,        \* ms since the last keydown (capped at DebounceMs), -1 before any
  fetchesSinceKey, \* getData() calls started since the last keydown
  burstKeys,       \* keydowns of the current burst: each under DebounceMs after the one before
  query,           \* the input's value at the last keydown of the local class (ghost)
  keysDone,        \* keydown events so far
  clicksDone,      \* click events so far
  lastClick,       \* what the last click did (ghost)
  lastFetch,       \* id of the getData() call whose list was rendered last, 0 for none (ghost)
  pendingAtClose   \* pending work that a close() found pending, with no open() since (ghost)

vars == <<variant, hostItems, items, wrapper, children, els, itemEls, opened,
          hostCond, timers, interval, inflight, fetchSeq, rejections, sinceKey,
          fetchesSinceKey, burstKeys, query, keysDone, clicksDone, lastClick,
          lastFetch, pendingAtClose>>

\* ------------------------------------------------------------------ bounds

MaxKeys == 2      \* keydown events in one behaviour
MaxClicks == 2    \* click events in one behaviour
TickMs == 250     \* the quantum by which the model lets time pass

\* setTimeout(..., 500)
DebounceMs == 500

\* ------------------------------------------------------------- characters

Min(a, b) == IF a <= b THEN a ELSE b

\* 0-based array read.
Nth(s, i) == s[i + 1]

\* String.prototype.toLowerCase / the i flag, on the letters the model uses.
ToLower(c) ==
  CASE c = "A" -> "a"
    [] c = "D" -> "d"
    [] c = "R" -> "r"
    [] OTHER -> c

\* \w of a JavaScript regular expression, on the characters the model uses.
WordChars ==
  {"a", "b", "c", "d", "e", "f", "g", "h", "i", "j", "k", "l", "m", "n", "o",
   "p", "q", "r", "s", "t", "u", "v", "w", "x", "y", "z",
   "A", "B", "C", "D", "E", "F", "G", "H", "I", "J", "K", "L", "M", "N", "O",
   "P", "Q", "R", "S", "T", "U", "V", "W", "X", "Y", "Z",
   "0", "1", "2", "3", "4", "5", "6", "7", "8", "9", "_"}

IsWordChar(c) == c \in WordChars

\* The class [.*+?^${}()|[\]\\] of the keydown handlers.
MetaChars == {".", "*", "+", "?", "^", "$", "{", "}", "(", ")", "|", "[", "]", "\\"}

\* ---------------------------------------------------------------- strings

\* String.prototype.trim: the model's only white space is " ".
RECURSIVE TrimLeft(_)
TrimLeft(s) ==
  IF s # <<>> /\ Head(s) = " " THEN TrimLeft(Tail(s)) ELSE s

RECURSIVE TrimRight(_)
TrimRight(s) ==
  IF s # <<>> /\ s[Len(s)] = " " THEN TrimRight(SubSeq(s, 1, Len(s) - 1)) ELSE s

Trim(s) == TrimLeft(TrimRight(s))

\* inputValue.replace(/[.*+?^${}()|[\]\\]/g, '\\$&'): a backslash before
\* every metacharacter.
RECURSIVE EscapeRegex(_)
EscapeRegex(s) ==
  IF s = <<>> THEN <<>>
  ELSE (IF Head(s) \in MetaChars THEN <<"\\", Head(s)>> ELSE <<Head(s)>>)
       \o EscapeRegex(Tail(s))

\* ------------------------------------------------------ regular expressions
\* new RegExp(source, 'i') compiled to a sequence of tokens: a word boundary
\* (\b), a literal character (an ordinary character, or an escaped one), or
\* any character (an unescaped "."). The sources the handlers build hold no
\* other construct: every other metacharacter of the input arrives escaped.

TokBoundary == [k |-> "wb", c |-> ""]
TokLiteral(ch) == [k |-> "lit", c |-> ch]
TokAny == [k |-> "any", c |-> ""]

RECURSIVE CompileRegex(_)
CompileRegex(src) ==
  IF src = <<>> THEN <<>>
  ELSE IF Head(src) = "\\" /\ Len(src) >= 2
    THEN <<IF src[2] = "b" THEN TokBoundary ELSE TokLiteral(src[2])>>
         \o CompileRegex(SubSeq(src, 3, Len(src)))
  ELSE IF Head(src) = "."
    THEN <<TokAny>> \o CompileRegex(Tail(src))
  ELSE <<TokLiteral(Head(src))>> \o CompileRegex(Tail(src))

\* \b at 0-based position pos of s: exactly one of the characters before and
\* after pos is a word character (the ends of s count as non-word).
AtWordBoundary(s, pos) ==
  LET before == pos > 0 /\ IsWordChar(s[pos])
      after == pos < Len(s) /\ IsWordChar(s[pos + 1])
  IN before # after

\* The tokens match s starting at 0-based position pos, ignoring case.
RECURSIVE MatchAt(_, _, _)
MatchAt(toks, s, pos) ==
  IF toks = <<>> THEN TRUE
  ELSE LET t == Head(toks) IN
    CASE t.k = "wb" -> AtWordBoundary(s, pos) /\ MatchAt(Tail(toks), s, pos)
      [] t.k = "lit" -> /\ pos < Len(s)
                        /\ ToLower(s[pos + 1]) = ToLower(t.c)
                        /\ MatchAt(Tail(toks), s, pos + 1)
      [] OTHER -> pos < Len(s) /\ MatchAt(Tail(toks), s, pos + 1)

\* RegExp.prototype.test: a match starting anywhere in s.
RegexTest(toks, s) == \E pos \in 0..Len(s) : MatchAt(toks, s, pos)

\* The pattern of the local keydown handler: `\\b${escapedValue}\\b`.
LocalPattern(inputValue) ==
  CompileRegex(<<"\\", "b">> \o EscapeRegex(Trim(inputValue)) \o <<"\\", "b">>)

\* this.items.filter(item => reg.test(item.label))
LocalFilter(inputValue, list) ==
  SelectSeq(list, LAMBDA item : RegexTest(LocalPattern(inputValue), item.label))

\* ------------------------------------------------------------------ items
\* A PopoverItem: its label, confirmationRequired, whether it defines hideIf
\* ("cond": a predicate returning the host condition; "none": not defined)
\* and whether it defines onClick.

ItemAdd == [label |-> <<"A", "d", "d", " ", "r", "o", "w">>,
            confirmationRequired |-> FALSE, hideIf |-> "none", onClick |-> TRUE]
ItemDel == [label |-> <<"D", "e", "l">>,
            confirmationRequired |-> TRUE, hideIf |-> "cond", onClick |-> TRUE]
ItemRaw == [label |-> <<"a", ".", "b">>,
            confirmationRequired |-> TRUE, hideIf |-> "none", onClick |-> FALSE]

ItemCut == [label |-> <<"C", "u", "t">>,
            confirmationRequired |-> TRUE, hideIf |-> "none", onClick |-> TRUE]

\* What this.items[i] yields past the end of the array.
UndefinedItem == [label |-> <<"?">>, confirmationRequired |-> FALSE,
                  hideIf |-> "none", onClick |-> FALSE]

\* The item arrays a host constructs the popover with.
HostLists == {<<ItemRaw>>, <<ItemAdd, ItemDel, ItemCut>>}

\* The values the search input holds when a keydown is handled.
Queries == {<<>>, <<" ", "D", "e", "l", " ">>, <<"d", "l">>, <<".">>}

\* The products a fetch of the catalogue answers with.
ProductP1 == [title |-> <<"p", "1">>]
ProductP2 == [title |-> <<"p", "2">>]
Catalogues == {<<ProductP1>>, <<ProductP1, ProductP2>>}

\* The result of the awaited fetch chain: the parsed body, or undefined when
\* .catch() handled a failure (console.log returns undefined).
ResultOf(products) == [defined |-> TRUE, products |-> products]
UndefinedResult == [defined |-> FALSE, products |-> <<>>]

\* The item getData() pushes for one product.
ProductItem(product) ==
  [label |-> product.title, confirmationRequired |-> FALSE,
   hideIf |-> "none", onClick |-> TRUE]

\* Array.prototype.slice(0, n)
Slice0(s, n) == SubSeq(s, 1, Min(n, Len(s)))

\* The head getData() starts its array with: this.items.slice(0, 2).
HeadOf(its) == Slice0(its, 2)

\* getData() after its await: reading result.products of undefined throws a
\* TypeError, which rejects the promise getData() returned.
GetData(result, its) ==
  IF ~result.defined
    THEN [threw |-> TRUE, value |-> <<>>]
    ELSE [threw |-> FALSE,
          value |-> HeadOf(its) \o [i \in 1..Len(result.products) |->
                                      ProductItem(result.products[i])]]

\* -------------------------------------------------------------------- DOM

SearchInput == 0

Range(s) == {s[i] : i \in DOMAIN s}

\* this.wrapper.querySelectorAll('.' + Popover.CSS.item): the rows among the
\* wrapper's children, in document order.
RowsOf(ch) == SelectSeq(ch, LAMBDA n : n # SearchInput)

\* A row that is made with the confirmation class already on it.
NewRowArmed(item, index) ==
  [index |-> index, item |-> item, confirm |-> TRUE, hidden |-> FALSE,
   clicks |-> 0, fired |-> 0, misfired |-> 0, wasArmed |-> FALSE]

\* $.make('div', Popover.CSS.item) with dataset.index = index: a fresh row,
\* no confirm class, no hidden class. item is the item the row shows. The
\* rest is history: the clicks the row received since the last close(), the
\* calls of its own item's onClick they made (fired) and the calls of another
\* item's onClick they made (misfired), and whether a close() found it armed.
NewRow(item, index) ==
  [index |-> index, item |-> item, confirm |-> FALSE, hidden |-> FALSE,
   clicks |-> 0, fired |-> 0, misfired |-> 0, wasArmed |-> FALSE]

\* The record kept of a click: the row it resolved to (0 for none), the item
\* popoverClicked resolved the row to, and what it did with it.
ClickRecord(row, item, outcome) == [row |-> row, item |-> item, outcome |-> outcome]

\* A row that renderItems detaches: its DOM state stays as it is (this.itemEls
\* still refers to it); its history is dropped.
Detached(row) ==
  [row EXCEPT !.clicks = 0, !.fired = 0, !.misfired = 0, !.wasArmed = FALSE]

\* The items the attached rows show, in document order.
Rendered == [i \in 1..Len(RowsOf(children)) |-> els[RowsOf(children)[i]].item]

\* The assignment at the top of renderItems: the remote class has
\* this.items = items, the local class has no such line.
ItemsAfterRender(newItems) == IF variant = "remote" THEN newItems ELSE items

\* A renderItems that empties this.itemEls before it pushes the new rows.
ItemElsReset(fresh) == fresh

\* this.itemEls after renderItems made the rows fresh: each is pushed, and
\* nothing is ever removed.
ItemElsAfterRender(fresh) == itemEls \o fresh

\* A renderItems that removes no child before it appends the new rows.
KeepAllChildren(ch) == ch

\* The children left once renderItems has removed every Popover.CSS.item
\* element it found under the wrapper: the search input.
KeptChildren(ch) == SelectSeq(ch, LAMBDA n : n = SearchInput)

\* renderItems(newItems), called when the wrapper's children are ch.
renderItems(newItems, ch) ==
  LET fresh == [i \in 1..Len(newItems) |-> Len(els) + i] IN
  /\ items' = ItemsAfterRender(newItems)
  /\ children' = KeptChildren(ch) \o fresh
  /\ els' = [n \in DOMAIN els |-> Detached(els[n])]
              \o [i \in 1..Len(newItems) |-> NewRow(newItems[i], i - 1)]
  /\ itemEls' = ItemElsAfterRender(fresh)

\* ---------------------------------------------------------------- actions

TimeVars == <<timers, interval, inflight, fetchSeq, rejections, sinceKey,
              fetchesSinceKey, burstKeys, lastFetch>>

Init ==
  /\ variant \in {"remote", "local"}
  /\ hostItems \in HostLists
  /\ items = hostItems
  /\ wrapper = "undefined"
  /\ children = <<>>
  /\ els = <<>>
  /\ itemEls = <<>>
  /\ opened = FALSE
  /\ hostCond \in BOOLEAN
  /\ timers = {}
  /\ interval = 0
  /\ inflight = {}
  /\ fetchSeq = 0
  /\ rejections = 0
  /\ sinceKey = -1
  /\ fetchesSinceKey = 0
  /\ burstKeys = 0
  /\ query = <<>>
  /\ keysDone = 0
  /\ clicksDone = 0
  /\ lastClick = ClickRecord(0, UndefinedItem, "none")
  /\ lastFetch = 0
  /\ pendingAtClose = {}

\* render(): the wrapper, the search input appended to it, the first
\* renderItems(this.items).
Render ==
  /\ wrapper = "undefined"
  /\ wrapper' = "div"
  /\ renderItems(items, <<SearchInput>>)
  /\ UNCHANGED <<variant, hostItems, opened, hostCond, keysDone, clicksDone,
                 lastClick, query>>
  /\ UNCHANGED TimeVars
  /\ UNCHANGED pendingAtClose

\* The keydown listener of the local class.
KeydownLocal(inputValue) ==
  /\ variant = "local"
  /\ wrapper = "div"
  /\ keysDone < MaxKeys
  /\ keysDone' = keysDone + 1
  /\ query' = inputValue
  /\ renderItems(LocalFilter(inputValue, items), children)
  /\ UNCHANGED <<variant, hostItems, wrapper, opened, hostCond, clicksDone,
                 lastClick>>
  /\ UNCHANGED TimeVars
  /\ UNCHANGED pendingAtClose

\* A click's event.target: the wrapper itself (padding, a gap between rows),
\* the search input, an attached row, or the label inside an attached row.
OutsideTargets == {<<"wrapper", 0>>, <<"search", 0>>}

RowTargets == {<<k, r>> : k \in {"row", "label"}, r \in Range(RowsOf(children))}

\* A closest() that falls back to the first row when the target lies in none.
ClosestOrFirstRow(target) ==
  IF target[1] \in {"row", "label"} THEN target[2]
  ELSE IF RowsOf(children) # <<>> THEN RowsOf(children)[1]
  ELSE 0

\* event.target.closest('.tc-popover__item'): the row the target is or lies
\* in, 0 for null.
Closest(target) == IF target[1] \in {"row", "label"} THEN target[2] ELSE 0

\* this.items[clickedItem.dataset.index]
ResolveItem(row) ==
  IF els[row].index < Len(items) THEN Nth(items, els[row].index) ELSE UndefinedItem

\* What popoverClicked does with the resolved item and the row's confirm
\* class: "arm" (setConfirmationState and return), "invoke" (item.onClick()),
\* or "throw": the TypeError of reading a property of undefined or of calling
\* an onClick that is not a function.
ClickOutcome(item, armed) ==
  IF item # UndefinedItem /\ item.confirmationRequired /\ ~armed THEN "arm"
  ELSE IF item = UndefinedItem \/ ~item.onClick THEN "throw"
  ELSE "invoke"

\* popoverClicked(event), reached through the wrapper's click listener.
Click(target) ==
  /\ wrapper = "div"
  /\ clicksDone < MaxClicks
  /\ clicksDone' = clicksDone + 1
  /\ LET row == Closest(target) IN
     IF row = 0
       THEN /\ els' = els
            /\ lastClick' = ClickRecord(0, UndefinedItem, "none")
       ELSE LET item == ResolveItem(row)
                outcome == ClickOutcome(item, els[row].confirm)
            IN /\ els' = [els EXCEPT
                    ![row].confirm = IF outcome = "arm" THEN TRUE ELSE @,
                    ![row].clicks = @ + 1,
                    ![row].fired = IF outcome = "invoke" /\ item = els[row].item
                                     THEN @ + 1 ELSE @,
                    ![row].misfired = IF outcome = "invoke" /\ item # els[row].item
                                        THEN @ + 1 ELSE @]
               /\ lastClick' = ClickRecord(row, item, outcome)
  /\ UNCHANGED <<variant, hostItems, items, wrapper, children, itemEls, opened,
                 hostCond, keysDone, query>>
  /\ UNCHANGED TimeVars
  /\ UNCHANGED pendingAtClose

\* item.hideIf()
HideIfResult(item) == hostCond

\* The indices at which open() finds an item with a hideIf function.
HideIndices == {i \in 0..(Len(items) - 1) : Nth(items, i).hideIf # "none"}

\* The first such index with no element in this.itemEls: there
\* this.itemEls[index].classList throws. Len(items) when there is none.
FirstMissing ==
  LET missing == {i \in HideIndices : i >= Len(itemEls)} IN
  IF missing = {} THEN Len(items)
  ELSE CHOOSE i \in missing : \A j \in missing : i <= j

\* A classList.toggle(name) without its force argument: it flips the class.
ToggleClassNoForce(has, force) == ~has

\* classList.toggle(name, force): whether the element has the class after it.
ToggleClass(has, force) == force

\* A classList.toggle(name) in the place of classList.add(name).
AddClassToggles(has) == ~has

\* classList.add(name): whether the element has the class after it.
AddClass(has) == TRUE

\* The opened getter: this.wrapper.classList.contains(popoverOpened).
Opened == opened

\* The elements e after open()'s forEach, which stops at the first index
\* whose element is missing.
OpenEls(e) ==
  LET toggled == {i \in HideIndices : i < FirstMissing} IN
  [n \in DOMAIN e |->
     IF \E i \in toggled : Nth(itemEls, i) = n
       THEN [e[n] EXCEPT !.hidden =
               ToggleClass(@, HideIfResult(Nth(items,
                 CHOOSE i \in toggled : Nth(itemEls, i) = n)))]
       ELSE e[n]]

\* The popoverOpened class after open(): it is added unless the forEach
\* threw on a missing element.
OpenOpened(was) ==
  IF FirstMissing < Len(items) THEN was ELSE AddClass(was)

\* open()
Open ==
  /\ wrapper = "div"
  /\ els' = OpenEls(els)
  /\ opened' = OpenOpened(opened)
  /\ UNCHANGED <<variant, hostItems, items, wrapper, children, itemEls,
                 hostCond, keysDone, clicksDone, lastClick, query>>
  /\ UNCHANGED TimeVars
  /\ pendingAtClose' = {}

\* A close() that clears only the elements open() looks at: one per item.
CloseTargetsFirstRows == Slice0(itemEls, Len(items))

\* The elements close() clears the confirmation state of: this.itemEls.
CloseTargets == itemEls

\* The work close() finds pending: the timeouts set and not yet run, and the
\* getData() calls awaiting their fetch.
Pending ==
  {[kind |-> "timeout", id |-> t.id] : t \in timers}
    \cup {[kind |-> "fetch", id |-> f] : f \in inflight}

\* A close() that cancels the pending timeout.
CloseClearsTimeouts(pending) == {}

\* The pending timeouts after close(): it calls no clearTimeout, so all stay.
TimeoutsAfterClose(pending) == pending

\* close()
Close ==
  /\ wrapper = "div"
  /\ opened' = FALSE
  /\ els' = [n \in DOMAIN els |->
               [els[n] EXCEPT
                  !.confirm = IF n \in Range(CloseTargets) THEN FALSE ELSE @,
                  !.wasArmed = @ \/ els[n].confirm,
                  !.clicks = 0,
                  !.fired = 0,
                  !.misfired = 0]]
  /\ UNCHANGED <<variant, hostItems, items, wrapper, children, itemEls,
                 hostCond, keysDone, clicksDone, lastClick, query>>
  /\ timers' = TimeoutsAfterClose(timers)
  /\ UNCHANGED <<interval, inflight, fetchSeq, rejections, sinceKey,
                 fetchesSinceKey, burstKeys, lastFetch>>
  /\ pendingAtClose' = pendingAtClose \cup Pending

\* The host's condition changes: the items' hideIf() now return the opposite.
HostCondChange ==
  /\ wrapper = "div"
  /\ hostCond' = ~hostCond
  /\ UNCHANGED <<variant, hostItems, items, wrapper, children, els, itemEls,
                 opened, keysDone, clicksDone, lastClick, query>>
  /\ UNCHANGED TimeVars
  /\ UNCHANGED pendingAtClose

\* ------------------------------------------------- the remote class's timing

\* What stays in pendingAtClose when the timeouts become tm, the fetches in
\* flight fl and the fetch rendered last lf: a timeout still pending, a fetch
\* still in flight or rendered last.
StillTracked(tm, fl, lf) ==
  {p \in pendingAtClose :
     IF p.kind = "timeout" THEN \E t \in tm : t.id = p.id
     ELSE p.id \in fl \/ p.id = lf}

DomVars == <<items, children, els, itemEls, opened>>

\* A clearTimeout that cancels nothing.
KeepTimeout(pending, id) == pending

\* clearTimeout(id): the pending timeout with that id, if any, is cancelled.
ClearTimeout(pending, id) == {t \in pending : t.id # id}

\* A keydown listener that aborts the fetches in flight.
AbortInflight(flying) == {}

\* The getData() calls in flight after a keydown: the listener keeps no handle
\* on them (no AbortController, no request counter), so they all stay.
InflightAfterKeydown(flying) == flying

\* The keydown listener of the remote class: clearTimeout(this.interval), then
\* this.interval = setTimeout(..., 500). The input's value is read, trimmed
\* and escaped, and then not used.
KeydownRemote ==
  /\ variant = "remote"
  /\ wrapper = "div"
  /\ keysDone < MaxKeys
  /\ keysDone' = keysDone + 1
  /\ timers' = ClearTimeout(timers, interval)
                 \cup {[id |-> interval + 1, remaining |-> DebounceMs]}
  /\ interval' = interval + 1
  /\ sinceKey' = 0
  /\ fetchesSinceKey' = 0
  /\ burstKeys' = IF sinceKey >= 0 /\ sinceKey < DebounceMs THEN burstKeys + 1 ELSE 1
  /\ inflight' = InflightAfterKeydown(inflight)
  /\ UNCHANGED <<variant, hostItems, wrapper, hostCond, clicksDone, lastClick,
                 query, fetchSeq, rejections>>
  /\ UNCHANGED DomVars
  /\ lastFetch' = lastFetch
  /\ pendingAtClose' = StillTracked(timers', inflight', lastFetch')

\* Time passes, by TickMs or up to the next expiry if that comes first: a
\* timeout that is due runs before more time passes.
Tick ==
  /\ wrapper = "div"
  /\ \A t \in timers : t.remaining > 0
  /\ timers # {} \/ (sinceKey >= 0 /\ sinceKey < DebounceMs)
  /\ LET steps == {TickMs} \cup {t.remaining : t \in timers}
         d == CHOOSE x \in steps : \A y \in steps : x <= y
     IN /\ timers' = {[t EXCEPT !.remaining = @ - d] : t \in timers}
        /\ sinceKey' = IF sinceKey < 0 THEN sinceKey ELSE Min(sinceKey + d, DebounceMs)
  /\ UNCHANGED <<variant, hostItems, wrapper, hostCond, keysDone, clicksDone,
                 lastClick, query, interval, inflight, fetchSeq, rejections,
                 fetchesSinceKey, burstKeys>>
  /\ UNCHANGED DomVars
  /\ UNCHANGED <<lastFetch, pendingAtClose>>

\* A due timeout runs its callback: this.getData() is called and awaits its
\* fetch.
TimerFire(t) ==
  /\ t \in timers
  /\ t.remaining = 0
  /\ timers' = timers \ {t}
  /\ fetchSeq' = fetchSeq + 1
  /\ inflight' = inflight \cup {fetchSeq + 1}
  /\ fetchesSinceKey' = fetchesSinceKey + 1
  /\ UNCHANGED <<variant, hostItems, wrapper, hostCond, keysDone, clicksDone,
                 lastClick, query, interval, rejections, sinceKey, burstKeys>>
  /\ UNCHANGED DomVars
  /\ lastFetch' = lastFetch
  /\ pendingAtClose' = StillTracked(timers', inflight', lastFetch')

\* One getData() call settles with the given result of its fetch chain, and
\* the .then(item => this.renderItems(item)) of the timeout callback follows:
\* it renders when getData() fulfilled, and is skipped when it rejected.
Settle(f, result) ==
  /\ f \in inflight
  /\ inflight' = inflight \ {f}
  /\ LET got == GetData(result, items) IN
     IF got.threw
       THEN /\ rejections' = rejections + 1
            /\ lastFetch' = lastFetch
            /\ UNCHANGED DomVars
       ELSE /\ rejections' = rejections
            /\ lastFetch' = f
            /\ renderItems(got.value, children)
            /\ opened' = opened
  /\ UNCHANGED <<variant, hostItems, wrapper, hostCond, keysDone, clicksDone,
                 lastClick, query, timers, interval, fetchSeq, sinceKey,
                 fetchesSinceKey, burstKeys>>
  /\ pendingAtClose' = StillTracked(timers', inflight', lastFetch')

\* The fetch answered with a catalogue.
FetchSucceed(f, products) == Settle(f, ResultOf(products))

\* The fetch failed: .catch logged the error and the chain yields undefined.
FetchFail(f) == Settle(f, UndefinedResult)

Next ==
  \/ Render
  \/ \E q \in Queries : KeydownLocal(q)
  \/ KeydownRemote
  \/ Tick
  \/ \E t \in timers : TimerFire(t)
  \/ \E f \in inflight, products \in Catalogues : FetchSucceed(f, products)
  \/ \E f \in inflight : FetchFail(f)
  \/ \E target \in OutsideTargets \cup RowTargets : Click(target)
  \/ Open
  \/ Close
  \/ HostCondChange

Spec == Init /\ [][Next]_vars

\* ----------------------------------------------------------------- claims

Attached == Range(RowsOf(children))

\* C1: a row whose item requires confirmation and has an onClick, clicked
\* once since it was made or since the last close(), is armed and its item's
\* onClick has not been called; clicked twice, its item's onClick has been
\* called exactly once.
C1_TwoClicksInvokeOnce ==
  \A r \in Attached :
    (els[r].item.confirmationRequired /\ els[r].item.onClick) =>
      /\ els[r].clicks = 1 => (els[r].confirm /\ els[r].fired = 0)
      /\ els[r].clicks = 2 => els[r].fired = 1

\* C2: close() leaves no attached row armed (a row not clicked since the last
\* close() is not armed, whatever renderItems calls came before), and the
\* first click after it on a row that the close() found armed only arms the
\* row again: no onClick is called.
C2_CloseResetsConfirmation ==
  \A r \in Attached :
    /\ els[r].clicks = 0 => ~els[r].confirm
    /\ (els[r].wasArmed /\ els[r].clicks = 1) =>
         (els[r].confirm /\ els[r].fired = 0 /\ els[r].misfired = 0)

\* C2's case: a row armed, closed, reopened and clicked once more, after a
\* rebuild of the rows by a keydown.
C2_Witness ==
  \E r \in Attached :
    /\ els[r].wasArmed /\ els[r].clicks = 1 /\ els[r].confirm
    /\ opened /\ keysDone > 0 /\ r > Len(hostItems)

\* C3: once rendered, this.itemEls, this.items and the attached rows have the
\* same length, and itemEls[i] is the attached row built for items[i].
C3_RowListAligned ==
  wrapper = "div" =>
    /\ Len(itemEls) = Len(RowsOf(children))
    /\ Len(itemEls) = Len(items)
    /\ \A i \in 1..Len(itemEls) :
         /\ itemEls[i] = RowsOf(children)[i]
         /\ els[itemEls[i]].item = items[i]

\* C4: the item a click on a row consults and invokes is the item the row was
\* built from.
C4_ClickResolvesOwnItem ==
  lastClick.row # 0 => lastClick.item = els[lastClick.row].item

\* C5: every open() leaves the hidden class on exactly the attached rows whose
\* item defines hideIf and whose hideIf() returns true at that call.
C5_OpenHidesExactly ==
  [][Open =>
       \A r \in Attached :
         els'[r].hidden = (els[r].item.hideIf # "none" /\ HideIfResult(els[r].item))]_vars

\* The characters of q occur in s in order, compared without case: q's
\* characters are taken literally.
RECURSIVE IsSubsequence(_, _)
IsSubsequence(q, s) ==
  IF q = <<>> THEN TRUE
  ELSE IF s = <<>> THEN FALSE
  ELSE IF ToLower(Head(q)) = ToLower(Head(s)) THEN IsSubsequence(Tail(q), Tail(s))
  ELSE IsSubsequence(q, Tail(s))

\* C6: in the local class, after a keydown the rows show exactly the items of
\* the original list, in order, whose label holds the characters of the
\* trimmed query as an ordered subsequence.
C6_LocalFilterIsSubsequence ==
  (variant = "local" /\ keysDone > 0) =>
    Rendered = SelectSeq(hostItems, LAMBDA item : IsSubsequence(Trim(query), item.label))

\* C7: at most one timeout is pending, and it is the one of the last keydown,
\* due DebounceMs after it; no getData() starts less than DebounceMs after a
\* keydown, and once the last keydown's timeout has run exactly one has
\* started since that keydown.
C7_OneFetchPerBurst ==
  /\ Cardinality(timers) <= 1
  /\ \A t \in timers : t.id = interval /\ t.remaining = DebounceMs - sinceKey
  /\ fetchesSinceKey <= 1
  /\ fetchesSinceKey = 1 => sinceKey >= DebounceMs
  /\ (keysDone > 0 /\ variant = "remote" /\ timers = {}) => fetchesSinceKey = 1

\* C7's case: two keydowns less than DebounceMs apart, and the one getData()
\* call of the burst started.
C7_Witness ==
  burstKeys = 2 /\ fetchesSinceKey = 1 /\ fetchSeq = 1 /\ timers = {}

\* C8: every render of a fetch shows the first min(2, n) items of the list the
\* host constructed the popover with, then the fetched items in fetch order.
C8_FixedHeadThenFetched ==
  [][\A f \in inflight, products \in Catalogues :
       FetchSucceed(f, products) =>
         Rendered' = Slice0(hostItems, 2)
                       \o [i \in 1..Len(products) |-> ProductItem(products[i])]]_vars

\* C9: a failed fetch ends its cycle with no error escaping, renderItems not
\* called, and items, rows and their flags as they were.
C9_FetchFailureSwallowed ==
  [][\A f \in inflight :
       FetchFail(f) => (rejections' = rejections /\ UNCHANGED DomVars)]_vars

\* C10: a click whose target lies in no row calls no onClick and changes no
\* row's flags, nor items, the row list, the attached rows or the open flag.
C10_OutsideClickNoOp ==
  [][\A target \in OutsideTargets :
       Click(target) => (lastClick'.outcome = "none" /\ UNCHANGED DomVars)]_vars

\* C10's case: a row is armed and the popover open when a click lands outside
\* every row.
C10_Witness ==
  /\ clicksDone = 2 /\ lastClick.row = 0 /\ opened
  /\ \E r \in Attached : els[r].confirm

\* C11: every click that resolves to an item with no onClick raises an error,
\* whatever the item's confirmationRequired and the row's armed state.
C11_MissingOnClickThrows ==
  (lastClick.row # 0 /\ ~lastClick.item.onClick) => lastClick.outcome = "throw"

\* C12: opened is false before the first open(), true after every open(),
\* false after every close(), and no other operation (a click, a keydown, a
\* renderItems, a timeout, a fetch settling) changes it.
C12_OpenedFollowsOpenClose ==
  [][/\ wrapper = "undefined" => ~Opened
     /\ Open => Opened'
     /\ Close => ~Opened'
     /\ (~Open /\ ~Close) => Opened' = Opened]_vars

\* C12's case: the popover open again after a close() that followed a click,
\* with the rows rebuilt since render().
C12_Witness ==
  /\ Opened /\ keysDone > 0
  /\ \E r \in Attached : els[r].wasArmed /\ els[r].clicks = 0

\* C13: open() is idempotent: with hideIf unchanged, a second open() right
\* after an open() leaves the opened flag and every row's hidden and armed
\* flags as the first open() left them.
C13_OpenIdempotent ==
  [][Open => /\ OpenEls(els)' = els'
             /\ OpenOpened(opened)' = opened']_vars

\* C13's case: the popover open with an attached row that open() has hidden
\* and that a click has armed.
C13_Witness ==
  /\ Opened
  /\ \E r \in Attached : els[r].hidden /\ els[r].confirm
  /\ OpenEls(els) = els

\* C14: in the remote class a keydown leaves every fetch in flight as it is,
\* and every fetch that answers is rendered, the newest or not: the rows then
\* show the head of this.items followed by that fetch's products, so the list
\* rendered last is that of the fetch that answered last.
C14_StaleFetchStillRenders ==
  [][/\ KeydownRemote => inflight' = inflight
     /\ \A f \in inflight, products \in Catalogues :
          FetchSucceed(f, products) =>
            /\ lastFetch' = f
            /\ items' = GetData(ResultOf(products), items).value
            /\ Rendered' = items']_vars

\* C14's case: two fetches overlapped, the second was answered first and the
\* first one's answer is the one rendered last.
C14_Witness ==
  /\ fetchSeq = 2 /\ inflight = {} /\ rejections = 0
  /\ lastFetch = 1
  /\ Rendered = items

\* C15: in the remote class close() leaves the pending timeout and the
\* fetches in flight as they are, and a fetch answered while the popover is
\* closed still rebuilds the rows from the fetched list (every attached row
\* is a new element) and leaves opened false.
C15_CloseCancelsNothing ==
  [][/\ Close => (timers' = timers /\ inflight' = inflight)
     /\ \A f \in inflight, products \in Catalogues :
          (FetchSucceed(f, products) /\ ~Opened) =>
            /\ ~Opened'
            /\ Rendered' = GetData(ResultOf(products), items).value
            /\ Range(RowsOf(children')) \cap Range(RowsOf(children)) = {}
            /\ Len(els') = Len(els) + Len(Rendered')]_vars

\* C15's case: close() ran with a timeout pending and a fetch in flight, the
\* popover was not opened since, and that fetch has been rendered.
C15_Witness ==
  /\ ~Opened
  /\ lastFetch # 0
  /\ [kind |-> "fetch", id |-> lastFetch] \in pendingAtClose
  /\ \E p \in pendingAtClose : p.kind = "timeout"
  /\ Rendered = items

\* The row that row r replaced: the one with r's index in the generation of
\* rows made before r's generation, 0 when that generation was shorter.
Replaced(r) ==
  LET prevEnd == r - els[r].index - 1 IN
  IF prevEnd < 1 THEN 0
  ELSE LET prevStart == prevEnd - els[prevEnd].index IN
       IF prevStart + els[r].index <= prevEnd THEN prevStart + els[r].index ELSE 0

\* The click of C16: it lands on an unarmed attached row whose predecessor at
\* the same index was armed when it was detached and has not been cleared.
ClickAfterRebuild(target) ==
  /\ Click(target)
  /\ ~els[Closest(target)].confirm
  /\ Replaced(Closest(target)) # 0
  /\ els[Replaced(Closest(target))].confirm

\* No row attached by a renderItems call is armed.
RebuiltRowsUnarmed ==
  children' # children => \A r \in Range(RowsOf(children')) : ~els'[r].confirm

\* C16 as stated: after every renderItems no attached row is armed, and a
\* click on the row that replaced an armed row, at the same index, only arms
\* the new row - onClick is not invoked.
C16_SecondClickOnlyArms ==
  [][/\ RebuiltRowsUnarmed
     /\ \A target \in RowTargets :
          ClickAfterRebuild(target) => lastClick'.outcome = "arm"]_vars

\* C16, amended: after every renderItems no attached row is armed; the click
\* on the row that replaced an armed row only arms it in the local class and,
\* in the remote class, at the indices 0 and 1 that getData() keeps; at an
\* index of 2 or more the remote class's new row shows a fetched product,
\* which requires no confirmation, and the click invokes its onClick at once.
C16_RebuildResetsConfirmation ==
  [][/\ RebuiltRowsUnarmed
     /\ \A target \in RowTargets :
          ClickAfterRebuild(target) =>
            IF variant = "remote" /\ els[Closest(target)].index >= 2
              THEN /\ lastClick'.outcome = "invoke"
                   /\ els'[Closest(target)].fired = els[Closest(target)].fired + 1
                   /\ ~els'[Closest(target)].confirm
              ELSE /\ lastClick'.outcome = "arm"
                   /\ els'[Closest(target)].fired = els[Closest(target)].fired
                   /\ els'[Closest(target)].confirm]_vars

\* C16's case: a row was armed, renderItems replaced it, and the click on the
\* new row at the same index has armed it without invoking onClick.
C16_Witness ==
  /\ lastClick.row \in Attached
  /\ lastClick.outcome = "arm"
  /\ els[lastClick.row].clicks = 1 /\ els[lastClick.row].fired = 0
  /\ Replaced(lastClick.row) # 0
  /\ els[Replaced(lastClick.row)].confirm

\* C17: the state machine of a row whose item has an onClick. A click never
\* un-arms the row. If the row's item requires confirmation, a click on the
\* unarmed row arms it and invokes nothing, and a click on the armed row
\* invokes the item's onClick once and leaves the row armed; if it does not,
\* every click invokes the item's onClick once and the row is never armed.
C17_RowStateMachine ==
  [][\A target \in RowTargets :
       Click(target) =>
         LET r == Closest(target) IN
         /\ els[r].confirm => els'[r].confirm
         /\ els[r].item.onClick =>
              IF els[r].item.confirmationRequired
                THEN /\ els'[r].confirm
                     /\ els'[r].fired = els[r].fired + (IF els[r].confirm THEN 1 ELSE 0)
                ELSE /\ ~els'[r].confirm
                     /\ els'[r].fired = els[r].fired + 1]_vars

\* What C18 says of the step that called renderItems(newItems): the attached
\* rows show newItems, one row per item and in its order, the i-th stamped
\* with index i (0-based); no row attached before is attached now; the search
\* input is attached, once, ahead of the rows.
RowsRebuiltFrom(newItems) ==
  /\ Rendered' = newItems
  /\ Len(RowsOf(children')) = Len(newItems)
  /\ \A i \in 1..Len(newItems) : els'[RowsOf(children')[i]].index = i - 1
  /\ Range(RowsOf(children')) \cap Range(RowsOf(children)) = {}
  /\ children' = <<SearchInput>> \o RowsOf(children')

\* C18: every renderItems call - from render(), from a keydown of the local
\* class, from an answered fetch of the remote class - leaves exactly the rows
\* of its argument attached, in order and stamped 0, 1, ..., with the rows of
\* before detached and the search input still attached.
C18_RowsAreNewItemsInOrder ==
  [][/\ Render => RowsRebuiltFrom(items)
     /\ \A q \in Queries : KeydownLocal(q) => RowsRebuiltFrom(LocalFilter(q, items))
     /\ \A f \in inflight, products \in Catalogues :
          FetchSucceed(f, products) =>
            RowsRebuiltFrom(GetData(ResultOf(products), items).value)]_vars

\* C18's case: rows have been rebuilt after render(): earlier rows are
\* detached and two or more new ones, stamped in order, are attached behind
\* the search input.
C18_Witness ==
  /\ keysDone > 0
  /\ Len(RowsOf(children)) >= 2
  /\ Len(els) > Len(RowsOf(children))
  /\ \A r \in Attached : r > Len(hostItems)
  /\ \A i \in 1..Len(RowsOf(children)) : els[RowsOf(children)[i]].index = i - 1
  /\ children[1] = SearchInput

\* C19: once rendered, this.itemEls is at least as long as this.items, so
\* open() finds an element at every index of an item that defines hideIf and
\* its forEach runs to the end.
C19_OpenFindsEveryRow ==
  wrapper = "div" =>
    /\ Len(itemEls) >= Len(items)
    /\ \A i \in HideIndices : i < Len(itemEls)
    /\ FirstMissing = Len(items)

\* C19's case: the local class shows fewer rows than this.items has items,
\* one of which defines hideIf, and open() has run.
C19_Witness ==
  /\ Opened
  /\ keysDone > 0
  /\ HideIndices # {}
  /\ Len(RowsOf(children)) < Len(items)
  /\ Len(itemEls) > Len(items)

====
